---- MODULE Spec2Model ----
(***************************************************************************)
(* Model of svgdb-scraper: the catalog fetch, variant expansion, local     *)
(* scan, reconciliation and fetch-and-persist workers of main.py, and the  *)
(* rate_limit decorator that wraps every remote call.                      *)
(***************************************************************************)
EXTENDS Integers, Sequences, FiniteSets, TLC

(***************************************************************************)
(* Bounds of the model.                                                    *)
(***************************************************************************)
MaxInt == 8          \* integer literals 0..MaxInt are recognised by int()
MaxRuns == 2         \* number of consecutive runs of main()
MaxVariants == 2     \* variants of the catalogs the runs are given
MaxFaults == 1       \* failures of the remote service and of the file system

(***************************************************************************)
(* Python values.  An Optional[int] field holds <<>> (None) or <<n>>.      *)
(***************************************************************************)
None == <<>>
Some(n) == <<n>>

\* Python truthiness of an Optional[int]: None and 0 are falsy.
Truthy(opt) == opt # None /\ opt[1] # 0

(***************************************************************************)
(* Cards (api.py).  The modelled fields of SVGDBCard are id_, name_,       *)
(* type_, craft_, original_card and artist; SVGDBCardMetadata adds evolved *)
(* and censored.                                                           *)
(***************************************************************************)
Ids == {7}
Names == {"Aria", "7"}
SVGDBCardType == {"Follower", "Spell"}
SVGDBCraft == {"Neutral"}
OriginalCards == {None, Some(0), Some(8)}
Artists == {"Shadowverse"}

SVGDBCard == [id_ : Ids, name_ : Names, type_ : SVGDBCardType,
              craft_ : SVGDBCraft, original_card : OriginalCards,
              artist : Artists]

CardFields == {"id_", "name_", "type_", "craft_", "original_card", "artist"}

SVGDBCardMetadata == [id_ : Ids, name_ : Names, type_ : SVGDBCardType,
                      craft_ : SVGDBCraft, original_card : OriginalCards,
                      artist : Artists, evolved : BOOLEAN, censored : BOOLEAN]

\* can_evolve that ignores the type
can_evolve_any_type(card) == TRUE

can_evolve(card) == card.type_ = "Follower"

\* SVGDBCardMetadata(**card_dump, evolved=e, censored=c)
Metadata(card, e, c) ==
    [id_ |-> card.id_, name_ |-> card.name_, type_ |-> card.type_,
     craft_ |-> card.craft_, original_card |-> card.original_card,
     artist |-> card.artist, evolved |-> e, censored |-> c]

construct_card_metadatas(card, censored_cards) ==
    LET base == <<Metadata(card, FALSE, FALSE)>>
        evo  == IF can_evolve(card)
                THEN <<Metadata(card, TRUE, FALSE)>> ELSE <<>>
        cen  == IF card.id_ \in censored_cards
                THEN <<Metadata(card, FALSE, TRUE)>>
                     \o (IF can_evolve(card)
                         THEN <<Metadata(card, TRUE, TRUE)>> ELSE <<>>)
                ELSE <<>>
    IN  base \o evo \o cen

RECURSIVE ExpandAll(_, _)
\* the loop of gather_all_cards over cards.root.values()
ExpandAll(cards, censored_cards) ==
    IF cards = <<>> THEN <<>>
    ELSE construct_card_metadatas(Head(cards), censored_cards)
         \o ExpandAll(Tail(cards), censored_cards)

Key(card) == <<card.id_, card.evolved, card.censored>>

(***************************************************************************)
(* File names (storage.py).  A path is the tuple of the tokens that the    *)
(* f-string of construct_card_image_filename joins with spaces.            *)
(***************************************************************************)
\* pathvalidate.sanitize_filename: drops the characters / \ : * ? " < > |
sanitize_filename(name) ==
    CASE name = "Ar/ia" -> "Aria"
      [] OTHER -> name

\* card.artist.split("/")
SplitSlash(artist) ==
    CASE artist = "Shadowverse" -> <<"Shadowverse">>
      [] artist = "Cygames/CYGAMES" -> <<"Cygames", "CYGAMES">>
      [] artist = "Ann/Bob" -> <<"Ann", "Bob">>
      [] OTHER -> <<artist>>

\* str.upper()
Upper(s) ==
    CASE s = "Cygames" -> "CYGAMES"
      [] s = "Ann" -> "ANN"
      [] s = "Shadowverse" -> "SHADOWVERSE"
      [] OTHER -> s

\* " ".join(parts)
JoinSpace(parts) ==
    CASE parts = <<"Ann", "Bob">> -> "Ann Bob"
      [] parts = <<"Cygames", "CYGAMES">> -> "Cygames CYGAMES"
      [] OTHER -> parts[1]

\* the file name without the token of the id
construct_card_image_filename_without_id(card) ==
    <<card.type_, card.craft_, IF card.evolved THEN "evolved" ELSE "unevolved",
      IF card.censored THEN "censored" ELSE "uncensored",
      sanitize_filename(card.name_)>>

construct_card_image_filename(card) ==
    LET censoring == IF card.censored THEN "censored" ELSE "uncensored"
        is_evolved == IF card.evolved THEN "evolved" ELSE "unevolved"
        artist_parts == SplitSlash(card.artist)
        artist == IF card.artist # ""
                  THEN IF Len(artist_parts) > 1
                          /\ Upper(artist_parts[1]) = artist_parts[2]
                       THEN artist_parts[1]
                       ELSE JoinSpace(artist_parts)
                  ELSE card.artist
    IN  <<card.id_, card.type_, card.craft_, is_evolved, censoring,
          sanitize_filename(card.name_), artist>>

(***************************************************************************)
(* Sidecar encoding (storage.py, metadata.py).  A sidecar holds one XMP    *)
(* text value, str(value), per dumped field.                               *)
(***************************************************************************)
\* Python str() of the field values
StrInt(n) == ToString(n)
StrBool(b) == IF b THEN "True" ELSE "False"
StrOpt(opt) == IF opt = None THEN "None" ELSE StrInt(opt[1])

\* format_svgdb_xmp_data + write_custom_xmp_metadata: xmp_data[key] = str(value)
format_svgdb_xmp_data(card) ==
    [id_ |-> StrInt(card.id_), name_ |-> card.name_, type_ |-> card.type_,
     craft_ |-> card.craft_, original_card |-> StrOpt(card.original_card),
     artist |-> card.artist, evolved |-> StrBool(card.evolved),
     censored |-> StrBool(card.censored)]

IsIntLiteral(s) == \E n \in 0..MaxInt : ToString(n) = s
IntOf(s) == CHOOSE n \in 0..MaxInt : ToString(n) = s
IsFloatLiteral(s) == s \in {"inf", "nan", "1.5"}

\* _parse_value: the Python type and value the text is read back as
_parse_value(value) ==
    IF value = "" THEN [tag |-> "str", val |-> ""]
    ELSE IF value = "None" THEN [tag |-> "NoneType", val |-> "None"]
    ELSE IF value = "True" \/ value = "False" THEN [tag |-> "bool", val |-> value]
    ELSE IF IsIntLiteral(value) THEN [tag |-> "int", val |-> value]
    ELSE IF IsFloatLiteral(value) THEN [tag |-> "float", val |-> value]
    ELSE [tag |-> "str", val |-> value]

\* read_xmp_metadata: every datum of the sidecar parsed by _parse_value
read_xmp_metadata(xmp) == [k \in DOMAIN xmp |-> _parse_value(xmp[k])]

\* pydantic validation of one parsed value against the field's annotation
ValidStr(pv) == pv.tag = "str"
ValidInt(pv) == pv.tag = "int"
ValidBool(pv) == pv.tag = "bool"
ValidOptInt(pv) == pv.tag = "int" \/ pv.tag = "NoneType"
ValidLiteral(pv, lits) == pv.tag = "str" /\ pv.val \in lits

\* SVGDBCardMetadata(**data) raises ValidationError iff this is FALSE
Validates(data) ==
    /\ ValidInt(data.id_)
    /\ ValidStr(data.name_)
    /\ ValidLiteral(data.type_, {"Follower", "Amulet", "Spell"})
    /\ ValidLiteral(data.craft_, {"Neutral", "Forestcraft"})
    /\ ValidOptInt(data.original_card)
    /\ ValidStr(data.artist)
    /\ ValidBool(data.evolved)
    /\ ValidBool(data.censored)

\* the validated model built from the parsed sidecar
ModelOf(data) ==
    [id_ |-> IntOf(data.id_.val), name_ |-> data.name_.val,
     type_ |-> data.type_.val, craft_ |-> data.craft_.val,
     original_card |-> IF data.original_card.tag = "NoneType" THEN None
                       ELSE Some(IntOf(data.original_card.val)),
     artist |-> data.artist.val,
     evolved |-> (data.evolved.val = "True"),
     censored |-> (data.censored.val = "True")]

(***************************************************************************)
(* The output directory: sidecars[p] is the content of the file p + ".xmp" *)
(* and images[p] the content of the image file p, for the paths that exist *)
(***************************************************************************)
\* a sidecar file that holds no XMP packet (an empty or truncated file)
Truncated == <<>>

\* exiv2.ImageFactory.open and readMetadata succeed on the file; on a file
\* without a packet they raise Exiv2Error
Opens(xmp) == DOMAIN xmp # {}

\* the body of read_existing_svgdb_card without the test of the companion
ReadableSidecars_without_image(sc, im) ==
    {p \in DOMAIN sc : Opens(sc[p]) /\ Validates(read_xmp_metadata(sc[p]))}

\* the body of read_existing_svgdb_card: the sidecars that have a companion
\* image and validate, as the records they are read back as
ReadableSidecars(sc, im) ==
    {p \in DOMAIN sc :
        p \in DOMAIN im /\ Opens(sc[p]) /\ Validates(read_xmp_metadata(sc[p]))}

RecordAt(sc, p) == ModelOf(read_xmp_metadata(sc[p]))

\* the orders in which the executor's threads may append to `cards`
ScanOrders(sc, im) ==
    LET ps == ReadableSidecars(sc, im)
        n  == Cardinality(ps)
    IN  {ord \in [1..n -> ps] : \A i, j \in 1..n : i # j => ord[i] # ord[j]}

list_existing_svgdb_cards(sc, ord) == [i \in DOMAIN ord |-> RecordAt(sc, ord[i])]

\* lookup_table = {key: card for card in existing_cards}: the last one wins
Keys(existing_cards) == {Key(existing_cards[i]) : i \in DOMAIN existing_cards}

LastIndex(existing_cards, key) ==
    CHOOSE i \in DOMAIN existing_cards :
        /\ Key(existing_cards[i]) = key
        /\ \A j \in DOMAIN existing_cards :
              Key(existing_cards[j]) = key => j <= i

lookup_table(existing_cards) ==
    [key \in Keys(existing_cards) |->
        existing_cards[LastIndex(existing_cards, key)]]

\* the test of the loop, comparing keys only
IsMissing_key_only(card, table) == Key(card) \notin DOMAIN table

\* the test of the loop of list_cards_to_download
IsMissing(card, table) ==
    Key(card) \notin DOMAIN table \/ table[Key(card)] # card

RECURSIVE MissingCards(_, _)
MissingCards(cards, table) ==
    IF cards = <<>> THEN <<>>
    ELSE (IF IsMissing(Head(cards), table) THEN <<Head(cards)>> ELSE <<>>)
         \o MissingCards(Tail(cards), table)

list_cards_to_download(cards, existing_cards) ==
    MissingCards(cards, lookup_table(existing_cards))

(***************************************************************************)
(* The rate limiter (rate_limit.py, constants.py): DEFAULT_LIMITER is a    *)
(* moving-window limiter over an in-memory list of the times of the        *)
(* permits granted, newest first.  Time is counted in ticks.               *)
(***************************************************************************)
VARIABLES
    now,            \* time()
    events,         \* DEFAULT_LIMITS_STORAGE: times of the permits, newest first
    acq_pc,         \* where each call of a rate-limited function is
    reschedule,     \* the reschedule argument of the decorator of each call
    acq_reset,      \* window.reset_time as the call last read it, or -1
    started_at      \* time at which the wrapped function was started, or -1

lim_vars == <<now, events, acq_pc, reschedule, acq_reset, started_at>>

acq_vars == <<now, acq_pc, reschedule, acq_reset, started_at>>

DEFAULT_RATE_LIMIT == 10    \* RateLimitItemPerSecond(10): the amount
Expiry == 2                 \* ticks in the one second of the limit
MaxTime == 5                \* last tick of the clock
NumAcquirers == 3           \* concurrent calls of rate-limited functions

Acquirers == DOMAIN acq_pc

\* MemoryStorage.acquire_entry with the off-by-one entry events[limit]
HitAllowed_off_by_one(ev, t) ==
    IF Len(ev) < DEFAULT_RATE_LIMIT + 1 THEN TRUE
    ELSE ev[DEFAULT_RATE_LIMIT + 1] < t - Expiry

\* strategy.hit, the test of MemoryStorage.acquire_entry: the permit is
\* refused iff the entry events[limit - 1] is inside the window
HitAllowed(ev, t) ==
    IF Len(ev) < DEFAULT_RATE_LIMIT THEN TRUE
    ELSE ev[DEFAULT_RATE_LIMIT] < t - Expiry

\* strategy.hit, the record of MemoryStorage.acquire_entry
Record(ev, t) == <<t>> \o ev

\* the entries inside the window that ends at t
InWindow(ev, t) == {i \in DOMAIN ev : ev[i] >= t - Expiry /\ ev[i] <= t}

\* strategy.get_window_stats(...).reset_time: the oldest entry inside the
\* window plus the expiry, or time() plus the expiry on an empty window
ResetTime(ev, t) ==
    IF InWindow(ev, t) = {} THEN t + Expiry
    ELSE LET oldest == CHOOSE i \in InWindow(ev, t) :
                          \A j \in InWindow(ev, t) : ev[i] <= ev[j]
         IN  ev[oldest] + Expiry

\* a refused hit that raises whatever the reschedule argument is
Refused_always_raises(a) == "raised"

\* a refused hit that never raises: the function is started all the same
Refused_never_raises(a) == IF reschedule[a] THEN "stats" ELSE "call"

\* where a refused hit leaves the wrapper: in the loop body, or raising
\* RateLimitError
Refused(a) == IF reschedule[a] THEN "stats" ELSE "raised"

\* wrapper: `while not await strategy.hit(...)` and `elif not await
\* strategy.hit(...)`, followed by `return await func(...)`
hit(a) ==
    /\ acq_pc[a] = "hit"
    /\ IF HitAllowed(events, now)
       THEN /\ events' = Record(events, now)
            /\ acq_pc' = [acq_pc EXCEPT ![a] = "call"]
            /\ started_at' = [started_at EXCEPT ![a] = now]
       ELSE /\ acq_pc' = [acq_pc EXCEPT ![a] = Refused(a)]
            /\ UNCHANGED <<events, started_at>>
    /\ UNCHANGED <<now, reschedule, acq_reset>>

\* wrapper: window = await strategy.get_window_stats(...)
get_window_stats(a) ==
    /\ acq_pc[a] = "stats"
    /\ acq_reset' = [acq_reset EXCEPT ![a] = ResetTime(events, now)]
    /\ acq_pc' = [acq_pc EXCEPT ![a] = "sleep"]
    /\ UNCHANGED <<now, events, reschedule, started_at>>

\* the sleep ends and the wrapped function is started without a new hit
wake_assuming_success(a) ==
    /\ acq_pc[a] = "sleep"
    /\ now >= acq_reset[a]
    /\ acq_pc' = [acq_pc EXCEPT ![a] = "call"]
    /\ started_at' = [started_at EXCEPT ![a] = now]
    /\ events' = Record(events, now)
    /\ UNCHANGED <<now, reschedule, acq_reset>>

\* wrapper: await sleep(window.reset_time - time()) ends, not before the
\* reset time, and the loop tests strategy.hit again
wake(a) ==
    /\ acq_pc[a] = "sleep"
    /\ now >= acq_reset[a]
    /\ acq_pc' = [acq_pc EXCEPT ![a] = "hit"]
    /\ UNCHANGED <<now, events, reschedule, acq_reset, started_at>>

\* the clock advances, up to MaxTime, and beyond it for as long as a sleep
\* still waits for its time
tick ==
    /\ \/ now < MaxTime
       \/ \E a \in Acquirers : acq_pc[a] = "sleep" /\ now < acq_reset[a]
    /\ now' = now + 1
    /\ UNCHANGED <<events, acq_pc, reschedule, acq_reset, started_at>>

\* the limiter of a process in which no call is being made
LimIdle ==
    /\ now = 0
    /\ events = <<>>
    /\ acq_pc = <<>>
    /\ reschedule = <<>>
    /\ acq_reset = <<>>
    /\ started_at = <<>>

(***************************************************************************)
(* State of a sequence of runs of main() against one output directory.     *)
(***************************************************************************)
VARIABLES
    run,            \* number of the current run of main()
    catalog,        \* the remote catalog: the cards of the catalog endpoint
    censored_ids,   \* the remote censored-id set
    sidecars,       \* the output directory: path -> content of path.xmp
    images,         \* the output directory: path -> content of the image
    main_pc,        \* where main() is
    cards_res,      \* outcome of get_cards()
    censored_res,   \* outcome of get_censored_cards()
    all_cards,      \* result of gather_all_cards()
    existing,       \* result of list_existing_svgdb_cards()
    missing,        \* result of list_cards_to_download(): one task per card
    task_pc,        \* where each download_and_save_svgdb_image task is
    task_image,     \* what get_card_fullart / get_card_censored_art returned
    requests,       \* asset requests issued in this run: <<endpoint, id, evolved>>
    written,        \* files written in this run: <<kind, path>>
    log,            \* lines printed or logged in this run
    faults,         \* failures injected so far
    prev            \* how the previous run ended (history)

run_vars == <<run, catalog, censored_ids, sidecars, images, main_pc, cards_res,
              censored_res, all_cards, existing, missing, task_pc, task_image,
              requests, written, log, faults, prev>>

NUM_THREADS == 4

Tasks == DOMAIN task_pc

\* the outcomes of one GET of the catalog or of the censored-id list
CatalogOutcomes == {"ok", "error_response", "invalid_schema"}

\* Response.is_error: a 4xx or 5xx status code
is_error(status) == status >= 400

\* the outcomes of one GET of an asset, as the transport reports them:
\* ConnectTimeout raised, or a response with a status code, a text that
\* contains "404 Not Found" or not, and a content that is empty or not
AssetOutcomes ==
    {[timeout |-> TRUE,  status |-> 0,   text404 |-> FALSE, empty |-> FALSE],
     [timeout |-> FALSE, status |-> 200, text404 |-> FALSE, empty |-> FALSE],
     [timeout |-> FALSE, status |-> 200, text404 |-> FALSE, empty |-> TRUE]}
    \cup {[timeout |-> FALSE, status |-> s, text404 |-> t, empty |-> FALSE] :
             s \in {404, 500}, t \in BOOLEAN}

\* get_card_fullart / get_card_censored_art: None, the Response, or the bytes
get_card_art(resp) ==
    IF resp.timeout
    THEN [type |-> "None", status |-> 0, text404 |-> FALSE, empty |-> TRUE]
    ELSE IF is_error(resp.status)
         THEN [type |-> "Response", status |-> resp.status,
               text404 |-> resp.text404, empty |-> FALSE]
         ELSE [type |-> "bytes", status |-> resp.status, text404 |-> FALSE,
               empty |-> resp.empty]

\* the response of a successful GET of an asset
GoodAsset ==
    [timeout |-> FALSE, status |-> 200, text404 |-> FALSE, empty |-> FALSE]

\* a failure may be injected while fewer than MaxFaults have been
Allowed(is_fault) == is_fault => faults < MaxFaults
Cost(is_fault) == IF is_fault THEN 1 ELSE 0

NoImage == [type |-> "None", status |-> 0, text404 |-> FALSE, empty |-> TRUE]

\* `not image`: None and b"" are falsy, a Response is truthy
Falsy(image) == image.type = "None" \/ (image.type = "bytes" /\ image.empty)

Endpoint(card) == IF card.censored THEN "censored" ELSE "fullart"

NoPrev == [ended |-> "none", same_remote |-> FALSE, changed |-> {},
           persisted_all |-> FALSE, up_to_date |-> FALSE,
           timed_out |-> {}, torn |-> {}]

\* the variants an earlier run can have saved: those of some card
SavedVariants ==
    {m \in SVGDBCardMetadata : ~m.censored /\ (m.evolved => m.type_ = "Follower")}

\* the variant as it was saved while the card had the other type
TypeChanged(m) ==
    [m EXCEPT !.type_ = IF m.type_ = "Follower" THEN "Spell" ELSE "Follower"]

\* the directory that holds the complete pair of each of the variants
DirOf(ms) ==
    [p \in {construct_card_image_filename(m) : m \in ms} |->
        CHOOSE m \in ms : construct_card_image_filename(m) = p]

\* the directories earlier runs can have left: nothing, the complete pair of
\* one variant, or the two pairs of a variant saved before and after the
\* type of its card changed
InitialDirs ==
    {<<>>} \cup {[p \in {construct_card_image_filename(m)} |-> m] :
                    m \in SavedVariants}
           \cup {DirOf({m, TypeChanged(m)}) :
                    m \in {v \in SavedVariants : ~v.evolved}}

\* the remote states given to a run: a catalog and a censored-id set that
\* expand to at most MaxVariants variants
Remotes ==
    {r \in ({<<>>} \cup {<<c>> : c \in SVGDBCard}) \X (SUBSET Ids) :
        Len(ExpandAll(r[1], r[2])) <= MaxVariants}

\* the cards that differ from card in exactly one field, the id excepted
OneFieldChanged(card) ==
    {c \in SVGDBCard :
        /\ c.id_ = card.id_
        /\ Cardinality({f \in CardFields : c[f] # card[f]}) = 1}

\* the positions of the catalog at which newcat differs from cat
ChangedAt(cat, newcat) == {i \in DOMAIN cat : newcat[i] # cat[i]}

\* the remote states a later run may find: the same, or one with one field
\* of one card changed
NextRemotes(cat, cen) ==
    {r \in Remotes :
        \/ r = <<cat, cen>>
        \/ /\ r[2] = cen /\ Len(r[1]) = Len(cat)
           /\ \E i \in DOMAIN cat :
                 /\ r[1][i] \in OneFieldChanged(cat[i])
                 /\ ChangedAt(cat, r[1]) = {i}}

\* the start of the first run, given the remote states and the directories
RunStart(remotes, dirs) ==
    /\ run = 1
    /\ \E r \in remotes : catalog = r[1] /\ censored_ids = r[2]
    /\ \E d \in dirs :
          /\ sidecars = [p \in DOMAIN d |-> format_svgdb_xmp_data(d[p])]
          /\ images = [p \in DOMAIN d |-> [key |-> Key(d[p]), gen |-> 0]]
    /\ main_pc = "gather_all_cards"
    /\ cards_res = "pending"
    /\ censored_res = "pending"
    /\ all_cards = <<>>
    /\ existing = <<>>
    /\ missing = <<>>
    /\ task_pc = <<>>
    /\ task_image = <<>>
    /\ requests = {}
    /\ written = {}
    /\ log = {}
    /\ faults = 0
    /\ prev = NoPrev
    /\ LimIdle

RunInit == RunStart(Remotes, InitialDirs)

(***************************************************************************)
(* main(): gather_all_cards                                                *)
(***************************************************************************)
\* get_cards(): the Response if is_error, else model_validate_json, which
\* raises ValidationError on a payload that does not fit the schema
get_cards ==
    /\ main_pc = "gather_all_cards"
    /\ cards_res = "pending"
    /\ HitAllowed(events, now)
    /\ events' = Record(events, now)
    /\ \E o \in CatalogOutcomes :
          /\ Allowed(o # "ok")
          /\ cards_res' = o
          /\ faults' = faults + Cost(o # "ok")
    /\ UNCHANGED <<run, catalog, censored_ids, sidecars, images, main_pc,
                   censored_res, all_cards, existing, missing, task_pc,
                   task_image, requests, written, log, prev>>
    /\ UNCHANGED acq_vars

get_censored_cards ==
    /\ main_pc = "gather_all_cards"
    /\ censored_res = "pending"
    /\ HitAllowed(events, now)
    /\ events' = Record(events, now)
    /\ \E o \in CatalogOutcomes :
          /\ Allowed(o # "ok")
          /\ censored_res' = o
          /\ faults' = faults + Cost(o # "ok")
    /\ UNCHANGED <<run, catalog, censored_ids, sidecars, images, main_pc,
                   cards_res, all_cards, existing, missing, task_pc,
                   task_image, requests, written, log, prev>>
    /\ UNCHANGED acq_vars

\* the isinstance tests of gather_all_cards passed over for the censored ids
gather_all_cards_raises_unchecked ==
    \/ cards_res = "invalid_schema"
    \/ /\ cards_res # "pending" /\ censored_res # "pending"
       /\ cards_res = "error_response"

\* gather() re-raises the first exception of either call; otherwise both
\* results are inspected and a Response raises ValueError
gather_all_cards_raises ==
    \/ cards_res = "invalid_schema"
    \/ censored_res = "invalid_schema"
    \/ /\ cards_res # "pending" /\ censored_res # "pending"
       /\ (cards_res = "error_response" \/ censored_res = "error_response")

gather_all_cards ==
    /\ main_pc = "gather_all_cards"
    /\ IF gather_all_cards_raises
       THEN /\ main_pc' = "aborted"
            /\ UNCHANGED all_cards
       ELSE /\ cards_res # "pending" /\ censored_res # "pending"
            /\ all_cards' = ExpandAll(catalog, censored_ids)
            /\ main_pc' = "list_cards_to_download"
    /\ UNCHANGED <<run, catalog, censored_ids, sidecars, images, cards_res,
                   censored_res, existing, missing, task_pc, task_image,
                   requests, written, log, faults, prev>>
    /\ UNCHANGED lim_vars

(***************************************************************************)
(* main(): list_cards_to_download and the creation of the tasks            *)
(***************************************************************************)
\* the sidecars whose read raises ValidationError, which is caught and printed
InvalidSidecars(sc, im) ==
    {p \in DOMAIN sc :
        p \in DOMAIN im /\ Opens(sc[p]) /\ ~Validates(read_xmp_metadata(sc[p]))}

\* the sidecars whose read raises Exiv2Error: the exception stays in the
\* Future of executor.submit, whose result the as_completed loop never asks
UnopenedSidecars(sc, im) ==
    {p \in DOMAIN sc : p \in DOMAIN im /\ ~Opens(sc[p])}

scan_and_diff ==
    /\ main_pc = "list_cards_to_download"
    /\ \E ord \in ScanOrders(sidecars, images) :
          /\ existing' = list_existing_svgdb_cards(sidecars, ord)
          /\ missing' = list_cards_to_download(all_cards, existing')
    /\ task_pc' = [i \in DOMAIN missing' |-> "pending"]
    /\ task_image' = [i \in DOMAIN missing' |-> NoImage]
    /\ log' = log \cup {<<"invalid_xmp", p>> : p \in InvalidSidecars(sidecars, images)}
    /\ main_pc' = "gather"
    /\ UNCHANGED <<run, catalog, censored_ids, sidecars, images, cards_res,
                   censored_res, all_cards, requests, written, faults, prev>>
    /\ UNCHANGED lim_vars

(***************************************************************************)
(* download_and_save_svgdb_image, one task per missing card                *)
(***************************************************************************)
\* the rate_limit wrapper lets the call through and the GET is issued
request_art(i) ==
    /\ main_pc = "gather"
    /\ task_pc[i] = "pending"
    /\ HitAllowed(events, now)
    /\ events' = Record(events, now)
    /\ task_pc' = [task_pc EXCEPT ![i] = "requesting"]
    /\ requests' = requests \cup
          {<<Endpoint(missing[i]), missing[i].id_, missing[i].evolved>>}
    /\ UNCHANGED <<run, catalog, censored_ids, sidecars, images, main_pc,
                   cards_res, censored_res, all_cards, existing, missing,
                   task_image, written, log, faults, prev>>
    /\ UNCHANGED acq_vars

\* what the task does with the value the art call returned, up to the
\* hand-off of save_svgdb_image to the executor
AfterFetch(card, image) ==
    IF Falsy(image) THEN "returned_none"
    ELSE IF image.type = "Response"
         THEN IF image.text404 THEN "returned_none" ELSE "raised"
         ELSE "save_sidecar"

WarnsNotFound(card, image) ==
    /\ ~Falsy(image) /\ image.type = "Response" /\ image.text404
    /\ ~Truthy(card.original_card)

receive_art(i) ==
    /\ main_pc = "gather"
    /\ task_pc[i] = "requesting"
    /\ \E resp \in AssetOutcomes :
          LET image == get_card_art(resp) IN
          /\ Allowed(resp # GoodAsset)
          /\ faults' = faults + Cost(resp # GoodAsset)
          /\ task_image' = [task_image EXCEPT ![i] = image]
          /\ task_pc' = [task_pc EXCEPT ![i] = AfterFetch(missing[i], image)]
          /\ log' = log
                \cup (IF resp.timeout THEN {<<"timed_out", i>>} ELSE {})
                \cup (IF WarnsNotFound(missing[i], image)
                      THEN {<<"not_found", i>>} ELSE {})
    /\ UNCHANGED <<run, catalog, censored_ids, sidecars, images, main_pc,
                   cards_res, censored_res, all_cards, existing, missing,
                   requests, written, prev>>
    /\ UNCHANGED lim_vars

\* jobs of the executor that occupy a thread
RunningJobs == {i \in Tasks : task_pc[i] = "save_image"}

\* save_svgdb_image in an executor thread: save_xmp_sidecar, which may throw
save_sidecar(i) ==
    /\ main_pc \in {"gather", "unwinding"}
    /\ task_pc[i] = "save_sidecar"
    /\ Cardinality(RunningJobs) < NUM_THREADS
    /\ LET path == construct_card_image_filename(missing[i]) IN
       \/ /\ sidecars' = [p \in DOMAIN sidecars \cup {path} |->
                            IF p = path THEN format_svgdb_xmp_data(missing[i])
                            ELSE sidecars[p]]
          /\ written' = written \cup {<<"xmp", path>>}
          /\ task_pc' = [task_pc EXCEPT ![i] = "save_image"]
          /\ UNCHANGED <<log, faults>>
       \/ /\ Allowed(TRUE)
          /\ faults' = faults + 1
          /\ task_pc' = [task_pc EXCEPT ![i] = "job_done"]
          /\ log' = log \cup {<<"save_failed", i>>}
          /\ UNCHANGED <<sidecars, written>>
    /\ UNCHANGED <<run, catalog, censored_ids, images, main_pc, cards_res,
                   censored_res, all_cards, existing, missing, task_image,
                   requests, prev>>
    /\ UNCHANGED lim_vars

\* save_svgdb_image without the except clause: the exception of
\* save_optimized_image reaches the task
save_image_uncaught(i) ==
    /\ main_pc \in {"gather", "unwinding"}
    /\ task_pc[i] = "save_image"
    /\ LET path == construct_card_image_filename(missing[i]) IN
       \/ /\ images' = [p \in DOMAIN images \cup {path} |->
                          IF p = path
                          THEN [key |-> Key(missing[i]), gen |-> run]
                          ELSE images[p]]
          /\ written' = written \cup {<<"png", path>>}
          /\ task_pc' = [task_pc EXCEPT ![i] = "job_done"]
          /\ UNCHANGED <<log, faults>>
       \/ /\ Allowed(TRUE)
          /\ faults' = faults + 1
          /\ task_pc' = [task_pc EXCEPT ![i] = "raised"]
          /\ UNCHANGED <<images, written, log>>
    /\ UNCHANGED <<run, catalog, censored_ids, sidecars, main_pc, cards_res,
                   censored_res, all_cards, existing, missing, task_image,
                   requests, prev>>
    /\ UNCHANGED lim_vars

\* save_svgdb_image, continued: save_optimized_image, which may throw
save_image(i) ==
    /\ main_pc \in {"gather", "unwinding"}
    /\ task_pc[i] = "save_image"
    /\ LET path == construct_card_image_filename(missing[i]) IN
       \/ /\ images' = [p \in DOMAIN images \cup {path} |->
                          IF p = path
                          THEN [key |-> Key(missing[i]), gen |-> run]
                          ELSE images[p]]
          /\ written' = written \cup {<<"png", path>>}
          /\ UNCHANGED <<log, faults>>
       \/ /\ Allowed(TRUE)
          /\ faults' = faults + 1
          /\ log' = log \cup {<<"save_failed", i>>}
          /\ UNCHANGED <<images, written>>
    /\ task_pc' = [task_pc EXCEPT ![i] = "job_done"]
    /\ UNCHANGED <<run, catalog, censored_ids, sidecars, main_pc, cards_res,
                   censored_res, all_cards, existing, missing, task_image,
                   requests, prev>>
    /\ UNCHANGED lim_vars

\* the await of run_in_executor completes and the task returns image_path
return_path(i) ==
    /\ main_pc = "gather"
    /\ task_pc[i] = "job_done"
    /\ task_pc' = [task_pc EXCEPT ![i] = "returned_path"]
    /\ UNCHANGED <<run, catalog, censored_ids, sidecars, images, main_pc,
                   cards_res, censored_res, all_cards, existing, missing,
                   task_image, requests, written, log, faults, prev>>
    /\ UNCHANGED lim_vars

(***************************************************************************)
(* main(): await gather of the save tasks, the exit of the with block, the *)
(* end of asyncio.run                                                      *)
(***************************************************************************)
Returned == {"returned_path", "returned_none"}

\* every task has returned: gather returns, "Downloads finished"
gather_returns ==
    /\ main_pc = "gather"
    /\ \A i \in Tasks : task_pc[i] \in Returned
    /\ main_pc' = "finished"
    /\ UNCHANGED <<run, catalog, censored_ids, sidecars, images, cards_res,
                   censored_res, all_cards, existing, missing, task_pc,
                   task_image, requests, written, log, faults, prev>>
    /\ UNCHANGED lim_vars

\* a task has raised: gather (return_exceptions is not set) re-raises it in
\* main, and the with block is left through ThreadPoolExecutor.__exit__,
\* shutdown(wait=True), which blocks the event loop
gather_raises ==
    /\ main_pc = "gather"
    /\ \E i \in Tasks : task_pc[i] = "raised"
    /\ main_pc' = "unwinding"
    /\ UNCHANGED <<run, catalog, censored_ids, sidecars, images, cards_res,
                   censored_res, all_cards, existing, missing, task_pc,
                   task_image, requests, written, log, faults, prev>>
    /\ UNCHANGED lim_vars

\* the executor has drained: the exception leaves main() and asyncio.run
\* cancels every task that has not finished
Cancelled(pc) == IF pc \in Returned \cup {"raised"} THEN pc ELSE "cancelled"

run_aborts ==
    /\ main_pc = "unwinding"
    /\ \A i \in Tasks : task_pc[i] \notin {"save_sidecar", "save_image"}
    /\ task_pc' = [i \in Tasks |-> Cancelled(task_pc[i])]
    /\ main_pc' = "aborted"
    /\ UNCHANGED <<run, catalog, censored_ids, sidecars, images, cards_res,
                   censored_res, all_cards, existing, missing, task_image,
                   requests, written, log, faults, prev>>
    /\ UNCHANGED lim_vars

(***************************************************************************)
(* The next run of main(), against a catalog that may have changed.        *)
(***************************************************************************)
\* every variant of the card is saved in the directory as it is now
UpToDate(card, cen, sc, im) ==
    LET metas == construct_card_metadatas(card, cen) IN
    \A k \in DOMAIN metas :
        \E p \in ReadableSidecars(sc, im) : RecordAt(sc, p) = metas[k]

\* the variants whose asset request timed out in this run
TimedOut == {missing[i] : i \in {j \in Tasks : <<"timed_out", j>> \in log}}

\* the paths whose sidecar this run replaced while the image of an earlier
\* run stayed
TornPaths ==
    {p \in DOMAIN sidecars \cap DOMAIN images :
        <<"xmp", p>> \in written /\ <<"png", p>> \notin written}

Persisted(i) ==
    LET path == construct_card_image_filename(missing[i])
    IN  <<"xmp", path>> \in written /\ <<"png", path>> \in written

new_run ==
    /\ main_pc \in {"finished", "aborted"}
    /\ run < MaxRuns
    /\ run' = run + 1
    /\ \E r \in NextRemotes(catalog, censored_ids) :
          /\ catalog' = r[1]
          /\ censored_ids' = r[2]
          /\ prev' = [ended |-> main_pc,
                      same_remote |-> (r = <<catalog, censored_ids>>),
                      changed |-> {catalog[i].id_ : i \in ChangedAt(catalog, r[1])},
                      persisted_all |-> (main_pc = "finished"
                                         /\ \A i \in Tasks : Persisted(i)),
                      up_to_date |-> \A i \in ChangedAt(catalog, r[1]) :
                                        UpToDate(catalog[i], censored_ids,
                                                 sidecars, images),
                      timed_out |-> TimedOut,
                      torn |-> TornPaths]
    /\ main_pc' = "gather_all_cards"
    /\ cards_res' = "pending"
    /\ censored_res' = "pending"
    /\ all_cards' = <<>>
    /\ existing' = <<>>
    /\ missing' = <<>>
    /\ task_pc' = <<>>
    /\ task_image' = <<>>
    /\ requests' = {}
    /\ written' = {}
    /\ log' = {}
    /\ UNCHANGED <<sidecars, images, faults>>
    /\ events' = <<>>
    /\ UNCHANGED acq_vars

RunNext ==
    \/ get_cards
    \/ get_censored_cards
    \/ gather_all_cards
    \/ scan_and_diff
    \/ \E i \in Tasks : request_art(i)
    \/ \E i \in Tasks : receive_art(i)
    \/ \E i \in Tasks : save_sidecar(i)
    \/ \E i \in Tasks : save_image(i)
    \/ \E i \in Tasks : return_path(i)
    \/ gather_returns
    \/ gather_raises
    \/ run_aborts
    \/ new_run

vars == <<run_vars, lim_vars>>

Init == RunInit

Next == RunNext

\* the runs of main()
Spec == Init /\ [][Next]_vars

(***************************************************************************)
(* Concurrent calls of rate-limited functions in one process, after earlier *)
(* permits were granted at time 0.                                         *)
(***************************************************************************)
\* no run of main() is in progress
RunIdle ==
    /\ run = 1
    /\ catalog = <<>>
    /\ censored_ids = {}
    /\ sidecars = <<>>
    /\ images = <<>>
    /\ main_pc = "finished"
    /\ cards_res = "ok"
    /\ censored_res = "ok"
    /\ all_cards = <<>>
    /\ existing = <<>>
    /\ missing = <<>>
    /\ task_pc = <<>>
    /\ task_image = <<>>
    /\ requests = {}
    /\ written = {}
    /\ log = {}
    /\ faults = 0
    /\ prev = NoPrev

LimInit ==
    /\ RunIdle
    /\ now = 0
    /\ \E earlier \in 0..DEFAULT_RATE_LIMIT : events = [i \in 1..earlier |-> 0]
    /\ acq_pc = [a \in 1..NumAcquirers |-> "hit"]
    /\ reschedule \in [1..NumAcquirers -> BOOLEAN]
    /\ acq_reset = [a \in 1..NumAcquirers |-> -1]
    /\ started_at = [a \in 1..NumAcquirers |-> -1]

LimNext ==
    \/ \E a \in Acquirers : hit(a) /\ UNCHANGED run_vars
    \/ \E a \in Acquirers : get_window_stats(a) /\ UNCHANGED run_vars
    \/ \E a \in Acquirers : wake(a) /\ UNCHANGED run_vars
    \/ tick /\ UNCHANGED run_vars

SpecLimiter == LimInit /\ [][LimNext]_vars

\* The event loop runs every coroutine that is ready (its ready queue is
\* first in, first out), a sleep ends once its time has come, and the clock
\* advances: each step of each call, and the tick, is weakly fair.
LimFairness ==
    /\ WF_vars(tick /\ UNCHANGED run_vars)
    /\ \A a \in 1..NumAcquirers :
          /\ WF_vars(hit(a) /\ UNCHANGED run_vars)
          /\ WF_vars(get_window_stats(a) /\ UNCHANGED run_vars)
          /\ WF_vars(wake(a) /\ UNCHANGED run_vars)

SpecLimiterFair == LimInit /\ [][LimNext]_vars /\ LimFairness

(***************************************************************************)
(* gather_all_cards alone, on every card and censored-id set.              *)
(***************************************************************************)
CensoredIdSets == SUBSET (Ids \cup {8})

ExpandInit ==
    RunStart(({<<>>} \cup {<<c>> : c \in SVGDBCard}) \X CensoredIdSets, {<<>>})

ExpandNext ==
    \/ get_cards
    \/ get_censored_cards
    \/ gather_all_cards

SpecExpand == ExpandInit /\ [][ExpandNext]_vars

(***************************************************************************)
(* The scan and the diff of main() alone, on directories that hold any     *)
(* subset of the files of three variants, a sidecar being either the one   *)
(* save_xmp_sidecar wrote or a file without a packet.                      *)
(***************************************************************************)
ScanCards ==
    {[id_ |-> 7, name_ |-> "Aria", type_ |-> "Follower", craft_ |-> "Neutral",
      original_card |-> None, artist |-> "Shadowverse"],
     [id_ |-> 7, name_ |-> "7", type_ |-> "Spell", craft_ |-> "Neutral",
      original_card |-> None, artist |-> "Shadowverse"]}

ScanVariants ==
    {m \in SavedVariants :
        \E c \in ScanCards, k \in 1..2 :
            k \in DOMAIN construct_card_metadatas(c, {})
            /\ m = construct_card_metadatas(c, {})[k]}

ScanPaths == {construct_card_image_filename(m) : m \in ScanVariants}

VariantAt(p) == CHOOSE m \in ScanVariants : construct_card_image_filename(m) = p

ScanInit ==
    /\ run = 1
    /\ \E c \in ScanCards : catalog = <<c>>
    /\ censored_ids = {}
    /\ \E ps \in SUBSET ScanPaths :
          \E whole \in [ps -> BOOLEAN] :
              sidecars = [p \in ps |->
                            IF whole[p] THEN format_svgdb_xmp_data(VariantAt(p))
                            ELSE Truncated]
    /\ \E ps \in SUBSET ScanPaths :
          images = [p \in ps |-> [key |-> Key(VariantAt(p)), gen |-> 0]]
    /\ main_pc = "gather_all_cards"
    /\ cards_res = "pending"
    /\ censored_res = "pending"
    /\ all_cards = <<>>
    /\ existing = <<>>
    /\ missing = <<>>
    /\ task_pc = <<>>
    /\ task_image = <<>>
    /\ requests = {}
    /\ written = {}
    /\ log = {}
    /\ faults = 0
    /\ prev = NoPrev
    /\ LimIdle

ScanNext ==
    \/ get_cards
    \/ get_censored_cards
    \/ gather_all_cards
    \/ scan_and_diff

SpecScan == ScanInit /\ [][ScanNext]_vars

(***************************************************************************)
(* One run of main() from an empty directory on a catalog of two cards,    *)
(* whose names and artists give the same tokens of the file name.          *)
(***************************************************************************)
PathCards(id) ==
    {[id_ |-> id, name_ |-> n, type_ |-> t, craft_ |-> "Neutral",
      original_card |-> None, artist |-> a] :
        n \in {"Aria", "Ar/ia"}, t \in SVGDBCardType,
        a \in {"Cygames", "Cygames/CYGAMES"}}

\* the catalog is a dict keyed by the id: one card per id
PathCatalogs ==
    {<<c, d>> : c \in {x \in PathCards(7) : x.type_ = "Spell"}, d \in PathCards(8)}

PathsInit == RunStart(PathCatalogs \X {{}}, {<<>>})

PathsNext ==
    \/ get_cards
    \/ get_censored_cards
    \/ gather_all_cards
    \/ scan_and_diff
    \/ \E i \in Tasks : request_art(i)
    \/ \E i \in Tasks : receive_art(i)
    \/ \E i \in Tasks : save_sidecar(i)
    \/ \E i \in Tasks : save_image(i)
    \/ \E i \in Tasks : return_path(i)
    \/ gather_returns
    \/ gather_raises
    \/ run_aborts

SpecPaths == PathsInit /\ [][PathsNext]_vars

(***************************************************************************)
(* Runs of main() that start from an empty directory on a catalog of one   *)
(* Follower card, id 7, not censored.                                      *)
(***************************************************************************)
FollowerCards == {c \in SVGDBCard : c.id_ = 7 /\ c.type_ = "Follower"}

E2EInit == RunStart({<<c>> : c \in FollowerCards} \X {{}}, {<<>>})

SpecE2E == E2EInit /\ [][Next]_vars

(***************************************************************************)
(* Properties of the runs                                                  *)
(***************************************************************************)
Range(seq) == {seq[i] : i \in DOMAIN seq}

\* list_cards_to_download has returned in the current run
DiffDone == main_pc \in {"gather", "unwinding", "finished", "aborted"}
            /\ cards_res = "ok" /\ censored_res = "ok"

\* C1: when a task fails with a DownloadError, every sibling task still runs
\* to its own completion (none is cancelled) and the run is not aborted.
C1_ErrorsIsolated ==
    \A i \in Tasks :
        task_pc[i] = "raised" =>
            /\ main_pc # "aborted"
            /\ \A j \in Tasks : task_pc[j] # "cancelled"

\* C2: when the previous run persisted every variant of its diff and the
\* remote catalog is unchanged, the diff of this run is empty.
C2_Idempotent ==
    (DiffDone /\ prev.persisted_all /\ prev.same_remote) => missing = <<>>

\* the variants the reconciler is said to select: no record has the key, or
\* a record with the key differs
Stale(card, records) ==
    \/ \A j \in DOMAIN records : Key(records[j]) # Key(card)
    \/ \E j \in DOMAIN records :
          Key(records[j]) = Key(card) /\ records[j] # card

RECURSIVE StaleCards(_, _)
StaleCards(cards, records) ==
    IF cards = <<>> THEN <<>>
    ELSE (IF Stale(Head(cards), records) THEN <<Head(cards)>> ELSE <<>>)
         \o StaleCards(Tail(cards), records)

\* C3: the diff is exactly the remote variants, in order, whose key has no
\* local record or a differing one, and never holds a variant that has a
\* local record equal to it.
C3_DiffExact ==
    DiffDone =>
        /\ missing = StaleCards(all_cards, existing)
        /\ \A i \in DOMAIN missing : missing[i] \notin Range(existing)

\* a field of a card changed since the previous run, in which every
\* variant of that card was saved and up to date
CardChanged == run > 1 /\ prev.changed # {} /\ prev.up_to_date

\* C4 as stated: after a change of one field of an up-to-date card, every
\* variant of the card is in the missing set of the next diff.
C4_EveryVariantReappears ==
    (DiffDone /\ CardChanged) =>
        \A k \in DOMAIN all_cards :
            all_cards[k].id_ \in prev.changed => all_cards[k] \in Range(missing)

\* C4 as amended: after a change of one field of an up-to-date card, every
\* variant of the card that no saved sidecar/image pair records exactly is
\* in the missing set of the next diff.
C4_UnsavedVariantsReappear ==
    (DiffDone /\ CardChanged) =>
        \A k \in DOMAIN all_cards :
            (all_cards[k].id_ \in prev.changed
             /\ all_cards[k] \notin Range(existing))
                => all_cards[k] \in Range(missing)

\* a changed card whose key had a record is found stale by the diff
C4_Witness ==
    /\ DiffDone /\ CardChanged
    /\ \E k \in DOMAIN all_cards :
          /\ all_cards[k].id_ \in prev.changed
          /\ Key(all_cards[k]) \in Keys(existing)
          /\ all_cards[k] \notin Range(existing)
          /\ all_cards[k] \in Range(missing)

\* C9: in a run in which the catalog call or the censored-id call returned
\* an error response or failed validation, no asset request is issued, no
\* file is written and no download task exists.
CatalogFetchFailed ==
    \/ cards_res \in {"error_response", "invalid_schema"}
    \/ censored_res \in {"error_response", "invalid_schema"}

C9_FatalFetchStopsRun ==
    CatalogFetchFailed =>
        /\ requests = {} /\ written = {} /\ Tasks = {}
        /\ main_pc \in {"gather_all_cards", "aborted"}

\* the censored-id call failed, the catalog call did not, the run aborted
C9_Witness ==
    /\ main_pc = "aborted" /\ cards_res = "ok"
    /\ censored_res = "error_response" /\ catalog # <<>>

\* the task received a 404 response whose text says "404 Not Found"
GotNotFound(i) ==
    /\ task_image[i].type = "Response"
    /\ task_image[i].status = 404 /\ task_image[i].text404

\* C10: a task whose asset fetch returned not-found returns Absent without
\* raising and writes no file, and the warning is logged exactly when the
\* card has no original-card back-reference.
C10_NotFoundAbsent ==
    \A i \in Tasks :
        GotNotFound(i) =>
            /\ task_pc[i] \in {"returned_none", "cancelled"}
            /\ <<"xmp", construct_card_image_filename(missing[i])>> \notin written
            /\ <<"png", construct_card_image_filename(missing[i])>> \notin written
            /\ (<<"not_found", i>> \in log <=> missing[i].original_card = None)

(***************************************************************************)
(* Properties of the scan                                                  *)
(***************************************************************************)
\* the paths at which both the sidecar and the image exist
CompletePairs == DOMAIN sidecars \cap DOMAIN images

\* the diff is done and the directory is as the scan read it
Scanned == DiffDone /\ written = {}

PathOf(card) == construct_card_image_filename(card)

\* C11: every record of the scan is read from a sidecar whose companion
\* image exists, a sidecar without image and an image without sidecar give
\* no record, and a remote variant whose path lacks one of the two files is
\* in the missing set of the diff.
C11_OnlyCompletePairs ==
    Scanned =>
        /\ \A k \in DOMAIN existing :
              \E p \in CompletePairs :
                  /\ Opens(sidecars[p])
                  /\ sidecars[p] = format_svgdb_xmp_data(existing[k])
        /\ Len(existing) <= Cardinality(CompletePairs)
        /\ \A k \in DOMAIN all_cards :
              PathOf(all_cards[k]) \notin CompletePairs
                  => all_cards[k] \in Range(missing)

\* the sidecar of a remote variant is there without its image, an image is
\* there without its sidecar, a complete pair gave a record
C11_Witness ==
    /\ Scanned /\ existing # <<>>
    /\ \E k \in DOMAIN all_cards :
          /\ PathOf(all_cards[k]) \in DOMAIN sidecars \ DOMAIN images
          /\ sidecars[PathOf(all_cards[k])] = format_svgdb_xmp_data(all_cards[k])
          /\ all_cards[k] \in Range(missing)
    /\ DOMAIN images \ DOMAIN sidecars # {}

\* the read of the sidecar at p fails
FailsToParse(p) ==
    ~Opens(sidecars[p]) \/ ~Validates(read_xmp_metadata(sidecars[p]))

\* C12: every sidecar of a complete pair whose read fails, in whatever way,
\* is reported in the log and skipped, the scan completes, and the record
\* of every other complete pair is returned.
C12_ParseFailuresReported ==
    Scanned =>
        \A p \in CompletePairs :
            IF FailsToParse(p) THEN <<"invalid_xmp", p>> \in log
            ELSE RecordAt(sidecars, p) \in Range(existing)

(***************************************************************************)
(* Properties of the download tasks                                        *)
(***************************************************************************)
\* C13: the keys of the variants of one catalog are distinct, there is one
\* task per download target, and no two tasks of a run have the same
\* output path: every file written in the run is the file of one task.
C13_DisjointPaths ==
    /\ \A i, j \in DOMAIN all_cards :
          i # j => Key(all_cards[i]) # Key(all_cards[j])
    /\ DiffDone => DOMAIN task_pc = DOMAIN missing
    /\ \A i, j \in Tasks :
          i # j => /\ missing[i] # missing[j]
                   /\ PathOf(missing[i]) # PathOf(missing[j])
    /\ \A w \in written :
          Cardinality({i \in Tasks : PathOf(missing[i]) = w[2]}) = 1

\* two tasks are in the executor at once for two cards whose names and
\* artists give the same tokens
C13_Witness ==
    \E i, j \in Tasks :
        /\ i # j
        /\ task_pc[i] = "save_image" /\ task_pc[j] = "save_image"
        /\ missing[i].name_ # missing[j].name_
        /\ missing[i].artist # missing[j].artist
        /\ \A t \in 2..7 : t # 4 => PathOf(missing[i])[t] = PathOf(missing[j])[t]

\* C14: from an empty directory and a catalog of one uncensored Follower
\* card with id 7, the first diff is the unevolved and the evolved variant,
\* whose paths differ in the evolved token only, and once both are
\* persisted the diff of a second run on the same catalog is empty.
C14_EndToEnd ==
    /\ (run = 1 /\ DiffDone) =>
          /\ Len(missing) = 2
          /\ Key(missing[1]) = <<7, FALSE, FALSE>>
          /\ Key(missing[2]) = <<7, TRUE, FALSE>>
          /\ \A t \in 1..7 :
                (PathOf(missing[1])[t] = PathOf(missing[2])[t]) <=> (t # 4)
    /\ (run = 2 /\ DiffDone /\ prev.ended = "finished"
        /\ prev.persisted_all /\ prev.same_remote)
          => missing = <<>>

\* the files of the variant of task i that were written in this run
WrittenBy(i) == {w \in written : w[2] = PathOf(missing[i])}

\* C15: a task whose asset request got an error response other than a 404
\* raises and neither returns nor writes a file; a task that got a 404
\* response returns Absent and never raises.
C15_ErrorResponses ==
    \A i \in Tasks :
        task_image[i].type = "Response" =>
            /\ WrittenBy(i) = {}
            /\ IF task_image[i].status = 404
               THEN task_pc[i] = "returned_none"
               ELSE task_pc[i] = "raised"

\* C16: a task whose asset request timed out returns Absent without
\* raising and writes no file, and its variant, if the catalog still has
\* it, is in the missing set of the diff of the next run.
C16_TimeoutRetried ==
    /\ \A i \in Tasks :
          <<"timed_out", i>> \in log =>
              task_pc[i] = "returned_none" /\ WrittenBy(i) = {}
    /\ (run > 1 /\ DiffDone) =>
          \A v \in prev.timed_out :
              v \in Range(all_cards) => v \in Range(missing)

\* C17: save_svgdb_image writes the sidecar, then the image; a write that
\* throws is logged for the task and leaves the task on its way to return,
\* a sidecar write that throws leaves the image alone, and nothing but the
\* response to the asset request makes a task raise; the sibling tasks and
\* main() are not touched by the step.
C17_Step(i) ==
    LET path == PathOf(missing[i])
        others == \A j \in Tasks \ {i} : task_pc'[j] = task_pc[j]
    IN  /\ (task_pc[i] = "save_sidecar" /\ task_pc'[i] # "save_sidecar")
              => /\ images' = images /\ others /\ main_pc' = main_pc
                 /\ \/ /\ task_pc'[i] = "save_image"
                       /\ written' = written \cup {<<"xmp", path>>}
                       /\ log' = log
                    \/ /\ task_pc'[i] = "job_done"
                       /\ written' = written /\ sidecars' = sidecars
                       /\ log' = log \cup {<<"save_failed", i>>}
        /\ (task_pc[i] = "save_image" /\ task_pc'[i] # "save_image")
              => /\ sidecars' = sidecars /\ others /\ main_pc' = main_pc
                 /\ task_pc'[i] = "job_done"
                 /\ <<"xmp", path>> \in written
                 /\ \/ written' = written \cup {<<"png", path>>} /\ log' = log
                    \/ /\ written' = written /\ images' = images
                       /\ log' = log \cup {<<"save_failed", i>>}
        /\ (task_pc[i] # "raised" /\ task_pc'[i] = "raised")
              => task_pc[i] = "requesting"

C17_PersistCaught ==
    [][\A i \in Tasks \cap DOMAIN task_pc' : C17_Step(i)]_vars

\* the image write of one task failed after its sidecar was written; the
\* task returned, its sibling persisted both files and the run finished
C17_Witness ==
    /\ main_pc = "finished"
    /\ \E i, j \in Tasks :
          /\ <<"save_failed", i>> \in log
          /\ WrittenBy(i) = {<<"xmp", PathOf(missing[i])>>}
          /\ task_pc[i] = "returned_path"
          /\ j # i /\ Persisted(j)

\* C18: a task that returned a path persisted its variant: the sidecar and
\* the image at the path were both written in this run with its content.
C18_PathMeansPersisted ==
    \A i \in Tasks :
        task_pc[i] = "returned_path" =>
            LET path == PathOf(missing[i]) IN
            /\ Persisted(i)
            /\ path \in CompletePairs
            /\ sidecars[path] = format_svgdb_xmp_data(missing[i])
            /\ images[path] = [key |-> Key(missing[i]), gen |-> run]

\* the key that the tokens of a path name
PathKey(p) == <<p[1], p[4], p[5]>>

\* the directory holds at most one sidecar/image pair per key
OnePairPerKey ==
    \A p, q \in CompletePairs : PathKey(p) = PathKey(q) => p = q

\* C19: no step of a run adds a second sidecar/image pair of a key to a
\* directory that holds at most one pair per key.
C19_OnePairPerKey == [][OnePairPerKey => OnePairPerKey']_vars

\* C20: a variant that the diff treats as up to date is not recorded by a
\* pair whose sidecar the previous run replaced while the image of an
\* earlier run stayed.
C20_PairFromOnePersist ==
    (run > 1 /\ DiffDone) =>
        \A k \in DOMAIN all_cards :
            all_cards[k] \notin Range(missing)
                => PathOf(all_cards[k]) \notin prev.torn

(***************************************************************************)
(* Properties of the variant expansion                                     *)
(***************************************************************************)
\* the four variants in the order of emission, as <<evolved, censored>>
EmissionOrder == <<<<FALSE, FALSE>>, <<TRUE, FALSE>>, <<FALSE, TRUE>>, <<TRUE, TRUE>>>>

\* the variant applies: evolved only for a Follower, censored only for an
\* id of the censored set
Applies(card, cen, flags) ==
    /\ flags[1] => card.type_ = "Follower"
    /\ flags[2] => card.id_ \in cen

\* the card with the two flags added and every field copied
WithFlags(card, flags) ==
    [f \in CardFields \cup {"evolved", "censored"} |->
        IF f = "evolved" THEN flags[1]
        ELSE IF f = "censored" THEN flags[2] ELSE card[f]]

RECURSIVE ExpectedFrom(_, _, _)
ExpectedFrom(card, cen, k) ==
    IF k > Len(EmissionOrder) THEN <<>>
    ELSE (IF Applies(card, cen, EmissionOrder[k])
          THEN <<WithFlags(card, EmissionOrder[k])>> ELSE <<>>)
         \o ExpectedFrom(card, cen, k + 1)

\* gather_all_cards has returned the expansion of a catalog of one card
Expanded == main_pc = "list_cards_to_download" /\ Len(catalog) = 1

\* C8: expand returns the base variant, then (T,F) iff Follower, then (F,T)
\* iff the id is censored, then (T,T) iff both, every field copied: 1
\* variant for an uncensored non-Follower, 4 for a censored Follower.
C8_ExpandExact ==
    Expanded =>
        LET card == catalog[1] IN
        /\ all_cards = ExpectedFrom(card, censored_ids, 1)
        /\ (card.type_ # "Follower" /\ card.id_ \notin censored_ids)
              => Len(all_cards) = 1
        /\ (card.type_ = "Follower" /\ card.id_ \in censored_ids)
              => /\ Len(all_cards) = 4
                 /\ {Key(all_cards[k]) : k \in 1..4} =
                       {card.id_} \X BOOLEAN \X BOOLEAN

\* a censored Follower was expanded to four variants
C8_Witness ==
    /\ Expanded /\ Len(all_cards) = 4
    /\ catalog[1].type_ = "Follower" /\ catalog[1].id_ \in censored_ids

(***************************************************************************)
(* Properties of the rate limiter                                          *)
(***************************************************************************)
\* N permits have been granted within the current window
WindowFull == Cardinality(InWindow(events, now)) >= DEFAULT_RATE_LIMIT

\* C5: whatever the interleaving of the calls, no window of the configured
\* length holds more than N permits, and every started call holds a permit.
C5_WindowLimit ==
    /\ \A t \in 0..now : Cardinality(InWindow(events, t)) <= DEFAULT_RATE_LIMIT
    /\ Cardinality({a \in Acquirers : acq_pc[a] = "call"}) <= Len(events)
    /\ \A a \in Acquirers : acq_pc[a] = "call" => started_at[a] \in Range(events)

\* a call was started in a window that is now full while another was refused
C5_Witness ==
    /\ WindowFull
    /\ \E a, b \in Acquirers :
          /\ acq_pc[a] = "call" /\ started_at[a] = now
          /\ acq_pc[b] \in {"stats", "raised"}

\* C6: in strict mode an acquire made when N permits are in the window
\* fails at once with RateLimitError: no sleep, no time passes, no permit
\* is recorded, and the wrapped function is never started.
C6_Step(a) ==
    /\ (acq_pc[a] = "hit" /\ acq_pc'[a] # "hit" /\ WindowFull)
          => /\ acq_pc'[a] = "raised"
             /\ now' = now /\ events' = events /\ started_at'[a] = -1
    /\ acq_pc[a] = "raised" => acq_pc'[a] = "raised"
    /\ acq_pc'[a] \notin {"stats", "sleep"}

C6_StrictFailsAtOnce ==
    [][\A a \in Acquirers : ~reschedule[a] => C6_Step(a)]_vars

\* a strict call was refused on a full window
C6_Witness ==
    /\ WindowFull
    /\ \E a \in Acquirers :
          ~reschedule[a] /\ acq_pc[a] = "raised" /\ started_at[a] = -1

\* C7: in reschedule mode an acquire made when N permits are in the window
\* never fails; it reads the window and sleeps, every sleep is followed by
\* a fresh hit, and the wrapped function starts only at a hit that finds a
\* free slot, at or after the reset time the call last read.
C7_Step(a) ==
    /\ acq_pc'[a] # "raised"
    /\ (acq_pc[a] = "hit" /\ acq_pc'[a] # "hit" /\ WindowFull)
          => acq_pc'[a] = "stats" /\ started_at'[a] = -1
    /\ (acq_pc[a] = "sleep" /\ acq_pc'[a] # "sleep")
          => acq_pc'[a] = "hit" /\ now >= acq_reset[a]
    /\ (acq_pc[a] # "call" /\ acq_pc'[a] = "call")
          => /\ acq_pc[a] = "hit" /\ ~WindowFull
             /\ started_at'[a] = now
             /\ now >= acq_reset[a]

C7_RescheduleWaits ==
    [][\A a \in Acquirers : reschedule[a] => C7_Step(a)]_vars

\* a rescheduled call read a reset time, slept, and started after it
C7_Witness ==
    \E a \in Acquirers :
        /\ reschedule[a] /\ acq_pc[a] = "call"
        /\ acq_reset[a] >= 0 /\ started_at[a] >= acq_reset[a]

\* C21: in reschedule mode every call that asks for a permit, at first or
\* again after a sleep, is eventually given one and its wrapped function is
\* started: no call stays in the cycle of hit, get_window_stats and sleep
\* for ever, whatever the other calls do.
C21_EveryAcquireStarts ==
    \A a \in 1..NumAcquirers :
        (reschedule[a] /\ acq_pc[a] \in {"hit", "stats", "sleep"})
            ~> (acq_pc[a] = "call")

\* two rescheduled calls that were refused on a full window and slept have
\* both been started, at different times
C21_Witness ==
    \E a, b \in Acquirers :
        /\ a # b /\ reschedule[a] /\ reschedule[b]
        /\ acq_pc[a] = "call" /\ acq_pc[b] = "call"
        /\ acq_reset[a] >= 0 /\ acq_reset[b] >= 0
        /\ started_at[a] # started_at[b]

====
